---------------------------- MODULE Spec2Model ----------------------------
(***************************************************************************)
(* route53-update: one run of main() (src/src/main.rs) with the helpers of *)
(* src/src/utils.rs, as a sequential state machine.  Every action is the   *)
(* code between two positions of main(); the collaborators (metadata       *)
(* services, URL fetch, Route 53) answer nondeterministically.             *)
(*                                                                         *)
(* Representation.  A String whose characters matter (a record value) is   *)
(* a sequence of one-character strings.  A DNS name is a sequence of       *)
(* tokens: a label, or "." for the separator, so "app.example.com." is     *)
(* <<"app", ".", "example", ".", "com", ".">>.  Option<T> is a sequence    *)
(* of length 0 (None) or 1 (Some).                                         *)
(***************************************************************************)
EXTENDS Integers, Sequences, FiniteSets, TLC

VARIABLES
  input,     \* the Arguments as parsed from the command line (main.rs:102)
  args,      \* the mutable `args` of main()
  pc,        \* position of main()
  failure,   \* the panic that ended the run, "" while none
  calls,     \* collaborator operations invoked so far, in order
  ecs,       \* the local `ecs_task_metadata` of main.rs:125, while in scope
  zones,     \* hosted_zones() of the list_hosted_zones response, while in scope
  zones_truncated, \* is_truncated() of the list_hosted_zones response
  hosted_zone, \* the local `hosted_zone` of main.rs:233, while in scope
  records,   \* resource_record_sets() of the list_resource_record_sets response
  truncated, \* is_truncated() of the list_resource_record_sets response
  batches,   \* change batches sent with change_resource_record_sets, in order
  polls,     \* get_change calls made by the wait loop (saturating)
  status,    \* status of the last get_change response
  change,    \* Route 53's status of the change made by the upsert batch, "" while none
  quoted     \* harness: a value and its successive images under the TXT quoting step

vars == <<input, args, pc, failure, calls, ecs, zones, zones_truncated, hosted_zone, records, truncated, batches, polls,
          status, change, quoted>>

----------------------------------------------------------------------------
(* Option<T> *)

None == <<>>

Some(x) == <<x>>

IsSome(o) == Len(o) = 1

Unwrap(o) == o[1]

----------------------------------------------------------------------------
(* Bounds of the model *)

\* longest --value list, and longest address list of a metadata document
MaxValues == 2

\* longest hosted zone listing
MaxZones == 2

\* longest record set listing
MaxRecords == 2

\* get_change calls counted by the wait loop
MaxPolls == 2

\* longest string of the quoting harness
MaxLen == 3

----------------------------------------------------------------------------
(* Strings *)

Quote == "\""

DigitChars == <<"0", "1", "2", "3", "4", "5", "6", "7", "8", "9">>

Digits == {DigitChars[i] : i \in 1..10}

HexChars == Digits \cup {"a", "b", "c", "d", "e", "f", "A", "B", "C", "D", "E", "F"}

DigitValue(c) == (CHOOSE i \in 1..10 : DigitChars[i] = c) - 1

\* str::find of a character: index of its first occurrence, 0 when absent
IndexOf(s, c) ==
  IF \E i \in 1..Len(s) : s[i] = c
  THEN CHOOSE i \in 1..Len(s) : s[i] = c /\ \A j \in 1..(i - 1) : s[j] # c
  ELSE 0

RECURSIVE Split(_, _)
\* str::split: the pieces of s between occurrences of sep
Split(s, sep) ==
  LET i == IndexOf(s, sep)
  IN IF i = 0 THEN <<s>>
     ELSE <<SubSeq(s, 1, i - 1)>> \o Split(SubSeq(s, i + 1, Len(s)), sep)

StartsWith(s, c) == Len(s) > 0 /\ s[1] = c

EndsWith(s, c) == Len(s) > 0 /\ s[Len(s)] = c

----------------------------------------------------------------------------
(* text.parse::<IpAddr>() of utils.rs:27, after core::net::parser *)

\* read_number(10, Some(3), false) into a u8
IsOctet(g) ==
  /\ Len(g) \in 1..3
  /\ \A i \in 1..Len(g) : g[i] \in Digits
  /\ Len(g) > 1 => g[1] # "0"
  /\ (IF Len(g) = 1 THEN DigitValue(g[1])
      ELSE IF Len(g) = 2 THEN 10 * DigitValue(g[1]) + DigitValue(g[2])
      ELSE 100 * DigitValue(g[1]) + 10 * DigitValue(g[2]) + DigitValue(g[3])) <= 255

IsIpv4(s) ==
  LET p == Split(s, ".")
  IN Len(p) = 4 /\ \A i \in 1..4 : IsOctet(p[i])

\* read_number(16, Some(4), true) into a u16
IsHexGroup(g) == Len(g) \in 1..4 /\ \A i \in 1..Len(g) : g[i] \in HexChars

\* read_groups: how many 16-bit groups the text holds, -1 when it is not a
\* list of groups; an embedded IPv4 address may stand last, for two groups
GroupCount(part, v4ok) ==
  LET g == Split(part, ":")
      n == Len(g)
  IN IF \A i \in 1..n : IsHexGroup(g[i]) THEN n
     ELSE IF v4ok /\ IsIpv4(g[n]) /\ \A i \in 1..(n - 1) : IsHexGroup(g[i]) THEN n + 1
     ELSE -1

\* index of the first "::", 0 when absent
DoubleColon(s) ==
  IF \E i \in 1..(Len(s) - 1) : s[i] = ":" /\ s[i + 1] = ":"
  THEN CHOOSE i \in 1..(Len(s) - 1) :
         /\ s[i] = ":" /\ s[i + 1] = ":"
         /\ \A j \in 1..(i - 1) : ~(s[j] = ":" /\ s[j + 1] = ":")
  ELSE 0

IsIpv6(s) ==
  LET dc == DoubleColon(s)
  IN IF dc = 0 THEN GroupCount(s, TRUE) = 8
     ELSE LET head == SubSeq(s, 1, dc - 1)
              tail == SubSeq(s, dc + 2, Len(s))
              hc == IF head = <<>> THEN 0 ELSE GroupCount(head, FALSE)
              tc == IF tail = <<>> THEN 0 ELSE GroupCount(tail, TRUE)
          IN hc >= 0 /\ tc >= 0 /\ hc + tc <= 7

\* Result<IpAddr, _>: "V4", "V6", or "Err"
ParseIpAddr(text) ==
  IF IsIpv4(text) THEN "V4" ELSE IF IsIpv6(text) THEN "V6" ELSE "Err"

----------------------------------------------------------------------------
(* utils::detect_record_type *)

\* Iterator::all on an iterator standing at index pos of items, with a test
\* that passes the members of `passing`: consumes items up to and including
\* the first one failing the test, or all of them; yields the answer and the
\* iterator's new position
IterAll(items, pos, passing) ==
  IF \E j \in pos..Len(items) : items[j] \notin passing
  THEN [result |-> FALSE,
        pos |-> 1 + CHOOSE j \in pos..Len(items) :
                      items[j] \notin passing /\ \A k \in pos..(j - 1) : items[k] \in passing]
  ELSE [result |-> TRUE, pos |-> Len(items) + 1]

\* the parse results passing |addr| addr.is_ok()
IsOk == {"V4", "V6"}

\* the parse results passing |addr| addr.unwrap().is_ipv4()
IsV4 == {"V4"}

\* the parse results passing |addr| addr.unwrap().is_ipv6()
IsV6 == {"V6"}

\* the three successive addrs.all(..) calls share the one iterator `addrs`
detect_record_type(v) ==
  LET addrs == [i \in 1..Len(v) |-> ParseIpAddr(v[i])]
      ok == IterAll(addrs, 1, IsOk)
      v4 == IterAll(addrs, ok.pos, IsV4)
      v6 == IterAll(addrs, v4.pos, IsV6)
  IN IF ok.result
     THEN IF v4.result THEN "A"
          ELSE IF v6.result THEN "AAAA"
          ELSE "TXT"
     ELSE "TXT"

----------------------------------------------------------------------------
(* TXT quoting, main.rs:204-210 *)

QuoteValueAlways(v) == <<Quote>> \o v \o <<Quote>>

QuoteValue(v) ==
  IF StartsWith(v, Quote) /\ EndsWith(v, Quote) THEN v
  ELSE <<Quote>> \o v \o <<Quote>>

----------------------------------------------------------------------------
(* Sample data *)

\* "203.0.113.5"
V4 == <<"2", "0", "3", ".", "0", ".", "1", "1", "3", ".", "5">>

\* "2001:db8::1"
V6 == <<"2", "0", "0", "1", ":", "d", "b", "8", ":", ":", "1">>

\* "hello"
Hello == <<"h", "e", "l", "l", "o">>

\* "\"hi\""
QuotedHi == <<Quote, "h", "i", Quote>>

\* "app.example.com"
AppName == <<"app", ".", "example", ".", "com">>

\* "app.example.com."
AppFqdn == <<"app", ".", "example", ".", "com", ".">>

\* "example.com"
ExampleName == <<"example", ".", "com">>

\* "example.com."
ExampleFqdn == <<"example", ".", "com", ".">>

\* "other.org."
OtherFqdn == <<"other", ".", "org", ".">>

\* "https://checkip.amazonaws.com/"
CheckIpUrl == "https://checkip.amazonaws.com/"

RECURSIVE SeqsUpTo(_, _)
\* the sequences over S of length at most n
SeqsUpTo(S, n) ==
  IF n = 0 THEN {<<>>}
  ELSE LET shorter == SeqsUpTo(S, n - 1)
       IN shorter \cup {Append(q, x) : q \in shorter, x \in S}

----------------------------------------------------------------------------
(* struct Arguments, main.rs:15-96, and the command lines explored *)

RrTypes == {"A", "AAAA", "CNAME", "TXT"}

Default ==
  [hosted_zone_id |-> None, hosted_zone_name |-> None,
   hosted_zone_type |-> "PreferPublic", record_name |-> AppName,
   record_type |-> None, value |-> <<>>, value_from |-> None,
   value_from_url |-> None, ip_address_type |-> "Public", ttl |-> None,
   comment |-> None, wait |-> FALSE, clear |-> FALSE]

\* the id passed with --hosted-zone-id
GivenZoneId == 0

\* the TTL passed with --ttl
GivenTtl == Some(60)

\* command lines that exercise the checks of main.rs:103-114
ConfigArgs ==
  {[Default EXCEPT !.hosted_zone_id = zid, !.hosted_zone_name = zname,
                   !.value = v, !.value_from = vf, !.value_from_url = url,
                   !.record_type = t, !.clear = c, !.ttl = GivenTtl] :
     zid \in {None, Some(GivenZoneId)}, zname \in {None, Some(ExampleName)},
     v \in {<<>>, <<V4>>}, vf \in {None, Some("Auto")},
     url \in {None, Some(CheckIpUrl)}, t \in {None, Some("TXT")}, c \in BOOLEAN}

\* explicit values of every shape, with and without a record type
DetectArgs ==
  {[Default EXCEPT !.hosted_zone_id = Some(GivenZoneId), !.ttl = GivenTtl,
                   !.value = v, !.record_type = t] :
     v \in SeqsUpTo({V4, V6, Hello, QuotedHi}, MaxValues) \ {<<>>},
     t \in {None, Some("TXT")}}

\* values taken from a metadata service or a URL
ValueArgs ==
  {[Default EXCEPT !.hosted_zone_id = Some(GivenZoneId), !.ttl = GivenTtl,
                   !.value_from = vf, !.record_type = t, !.ip_address_type = ip] :
     vf \in {Some("Auto"), Some("Ec2Metadata"), Some("EcsMetadata")},
     t \in {None} \cup {Some(x) : x \in RrTypes}, ip \in {"Public", "Private"}}
  \cup
  {[Default EXCEPT !.hosted_zone_id = Some(GivenZoneId), !.ttl = GivenTtl,
                   !.value_from_url = Some(CheckIpUrl), !.record_type = t] :
     t \in {None, Some("A"), Some("TXT")}}

\* the hosted zone is looked up
ZoneArgs ==
  {[Default EXCEPT !.value = <<V4>>, !.ttl = GivenTtl, !.record_name = n,
                   !.hosted_zone_name = zname, !.hosted_zone_type = zt] :
     n \in {AppName, AppFqdn},
     zname \in {None, Some(ExampleName), Some(ExampleFqdn), Some(AppFqdn)},
     zt \in {"PreferPublic", "Public", "Private"}}

\* the record sets are listed
ClearArgs ==
  {[Default EXCEPT !.hosted_zone_id = Some(GivenZoneId), !.value = v,
                   !.record_type = t, !.ttl = l, !.clear = c] :
     v \in {<<V4>>, <<Hello>>}, t \in {None} \cup {Some(x) : x \in RrTypes},
     l \in {None, GivenTtl}, c \in BOOLEAN}

\* whole runs from the record name alone
EndToEndArgs ==
  {[Default EXCEPT !.value = <<V4>>, !.wait = w, !.clear = c, !.comment = cm] :
     w \in BOOLEAN, c \in BOOLEAN, cm \in {None, Some("dyndns")}}

ArgsSpace ==
  ConfigArgs \cup DetectArgs \cup ValueArgs \cup ZoneArgs \cup ClearArgs \cup EndToEndArgs

----------------------------------------------------------------------------
(* What the collaborators may answer *)

\* HostedZone: name and config.private_zone; the id is its place in the listing
ZoneShapes ==
  [name : {AppFqdn, ExampleFqdn, OtherFqdn},
   config : {None, Some([private_zone |-> FALSE]), Some([private_zone |-> TRUE])}]

ZoneListings ==
  {[i \in 1..Len(q) |-> [id |-> i, name |-> q[i].name, config |-> q[i].config]] :
     q \in SeqsUpTo(ZoneShapes, MaxZones)}

\* ResourceRecordSet: name, type, ttl (None for an alias record)
RecordShapes ==
  [name : {AppFqdn}, type : RrTypes, ttl : {Some(600), None}]
  \cup [name : {ExampleFqdn}, type : {"A", "TXT"}, ttl : {Some(600)}]

RecordListings == SeqsUpTo(RecordShapes, MaxRecords)

\* EcsContainerNetworkMetadata
AddressLists(addr) == {None} \cup {Some(l) : l \in SeqsUpTo({<<>>, addr}, MaxValues)}

Networks == [ipv4_addresses : AddressLists(V4), ipv6_addresses : AddressLists(V6)]

\* EcsTaskMetadata
EcsDocuments ==
  {[containers |-> <<>>], [containers |-> <<[networks |-> <<>>]>>]}
  \cup {[containers |-> <<[networks |-> <<n>>]>>] : n \in Networks}

\* bodies served for --value-from-url
UrlBodies == {V4 \o <<"\n">>, <<" ">> \o Hello \o <<" ">>, <<"\n">>}

----------------------------------------------------------------------------
(* Helpers of main() *)

\* main.rs:116-118 and 235-237: a name gets a trailing "." unless it has one
WithTrailingDot(name) == IF EndsWith(name, ".") THEN name ELSE Append(name, ".")

\* str::split_once("."): the text before and after the first ".", or None
split_once(name) ==
  LET i == IndexOf(name, ".")
  IN IF i = 0 THEN None
     ELSE Some(<<SubSeq(name, 1, i - 1), SubSeq(name, i + 1, Len(name))>>)

\* str::trim: leading and trailing whitespace removed
Whitespace == {" ", "\n", "\t", "\r"}

RECURSIVE Trim(_)
Trim(s) ==
  IF Len(s) > 0 /\ s[1] \in Whitespace THEN Trim(Tail(s))
  ELSE IF Len(s) > 0 /\ s[Len(s)] \in Whitespace THEN Trim(SubSeq(s, 1, Len(s) - 1))
  ELSE s

\* Iterator::next / slice::first: the first element, or None
First(q) == IF q = <<>> THEN None ELSE Some(Head(q))

----------------------------------------------------------------------------
(* utils::get_hosted_zone *)

\* get_hosted_zone falling back to the first zone under every preference
get_hosted_zone_or_first(zs, hosted_zone_type) ==
  LET private_zone == hosted_zone_type = "Private"
      Matches(z) == IsSome(z.config) /\ Unwrap(z.config).private_zone = private_zone
      found == First(SelectSeq(zs, Matches))
  IN IF IsSome(found) THEN found ELSE First(zs)

get_hosted_zone(zs, hosted_zone_type) ==
  LET private_zone == hosted_zone_type = "Private"
      Matches(z) == IsSome(z.config) /\ Unwrap(z.config).private_zone = private_zone
      found == First(SelectSeq(zs, Matches))
  IN IF IsSome(found) THEN found
     ELSE IF hosted_zone_type = "PreferPublic"
     THEN First(zs)
     ELSE None

\* main.rs:254-260: the type the climb starts with
ClimbStartType(preference) ==
  IF preference = "Public" \/ preference = "PreferPublic" THEN "Public" ELSE "Private"

RECURSIVE Climb(_, _, _, _)
\* main.rs:261-285: the loop, from the state (search_name, hosted_zone_type);
\* the zone it breaks with, or None when it panics
Climb(zs, search_name, hosted_zone_type, preference) ==
  LET Named(z) == z.name = search_name
      zone == get_hosted_zone(SelectSeq(zs, Named), hosted_zone_type)
      search_split == split_once(search_name)
  IN IF IsSome(zone) THEN zone
     ELSE IF IsSome(search_split)
     THEN Climb(zs, Unwrap(search_split)[2], hosted_zone_type, preference)
     ELSE IF preference = "PreferPublic" /\ hosted_zone_type = "Public"
     THEN Climb(zs, search_name, "Private", preference)
     ELSE None

\* the lookup by --hosted-zone-name climbing from that name like the lookup
\* by record name
ZoneByNameOrParent(zs, hosted_zone_name, preference) ==
  Climb(zs, hosted_zone_name, ClimbStartType(preference), preference)

\* main.rs:238-245: the zone for --hosted-zone-name
ZoneByName(zs, hosted_zone_name, preference) ==
  LET Named(z) == z.name = hosted_zone_name
  IN get_hosted_zone(SelectSeq(zs, Named), preference)

----------------------------------------------------------------------------
(* TTL and conflicts, main.rs:309-347 *)

\* main.rs:318
DefaultTtl == 300

ExistingRecordAnyType(rs, record_name, record_type) ==
  LET SameName(r) == r.name = record_name
  IN First(SelectSeq(rs, SameName))

\* main.rs:311-313: the listed record whose TTL is copied, or None
ExistingRecord(rs, record_name, record_type) ==
  LET SameNameAndType(r) == r.name = record_name /\ Some(r.type) = record_type
  IN First(SelectSeq(rs, SameNameAndType))

\* main.rs:331-338: the three filters of the delete loop
IsConflictSameTypeToo(r, record_name, record_type) ==
  /\ r.name = record_name
  /\ (record_type = Some("CNAME") \/ r.type = "A" \/ r.type = "AAAA" \/ r.type = "CNAME")

IsConflict(r, record_name, record_type) ==
  /\ r.name = record_name
  /\ (record_type = Some("CNAME") \/ r.type = "A" \/ r.type = "AAAA" \/ r.type = "CNAME")
  /\ Some(r.type) # record_type

\* main.rs:340-345: one Delete per conflicting record, in listing order
DeleteChanges(rs, record_name, record_type) ==
  LET Conflicting(r) == IsConflict(r, record_name, record_type)
      hit == SelectSeq(rs, Conflicting)
  IN [i \in 1..Len(hit) |-> [action |-> "DELETE", resource_record_set |-> hit[i]]]

\* main.rs:364-386: the Upsert built from args
UpsertChange(a) ==
  [action |-> "UPSERT",
   resource_record_set |->
     [name |-> a.record_name, type |-> Unwrap(a.record_type), ttl |-> a.ttl,
      resource_records |-> a.value]]

----------------------------------------------------------------------------
(* The run: main.rs:99-425 *)

ConfigErrorNoTxtCheck(a) ==
  IF IsSome(a.hosted_zone_id) /\ IsSome(a.hosted_zone_name)
  THEN "can only use one of --hosted-zone-id or --hosted-zone-name."
  ELSE IF \/ a.value # <<>> /\ IsSome(a.value_from)
          \/ a.value # <<>> /\ IsSome(a.value_from_url)
          \/ IsSome(a.value_from) /\ IsSome(a.value_from_url)
  THEN "can only use one of --value, --value-from, or --value-from-url."
  ELSE IF a.value = <<>> /\ a.value_from = None /\ a.value_from_url = None
  THEN "value must be supplied with either --value, --value-from, or --value-from-url."
  ELSE ""

\* main.rs:103-114: the panic message, "" when the arguments pass
ConfigError(a) ==
  IF IsSome(a.hosted_zone_id) /\ IsSome(a.hosted_zone_name)
  THEN "can only use one of --hosted-zone-id or --hosted-zone-name."
  ELSE IF \/ a.value # <<>> /\ IsSome(a.value_from)
          \/ a.value # <<>> /\ IsSome(a.value_from_url)
          \/ IsSome(a.value_from) /\ IsSome(a.value_from_url)
  THEN "can only use one of --value, --value-from, or --value-from-url."
  ELSE IF a.value = <<>> /\ a.value_from = None /\ a.value_from_url = None
  THEN "value must be supplied with either --value, --value-from, or --value-from-url."
  ELSE IF IsSome(a.record_type) /\ a.record_type = Some("TXT") /\ a.clear
  THEN "--clear only works with A, AAAA, or CNAME"
  ELSE ""

Panic(message) == pc' = "failed" /\ failure' = message

Goto(position) == pc' = position /\ failure' = failure

Call(operation) == calls' = Append(calls, operation)

Init ==
  /\ input \in ArgsSpace
  /\ args = input
  /\ pc = "start"
  /\ failure = ""
  /\ calls = <<>>
  /\ ecs = None
  /\ zones = <<>>
  /\ zones_truncated = FALSE
  /\ hosted_zone = None
  /\ records = <<>>
  /\ truncated = FALSE
  /\ batches = <<>>
  /\ polls = 0
  /\ status = ""
  /\ change = ""
  /\ quoted = <<>>

\* main.rs:102-118
Validate ==
  /\ pc = "start"
  /\ LET e == ConfigError(args)
     IN IF e # ""
        THEN Panic(e) /\ args' = args
        ELSE /\ args' = [args EXCEPT !.record_name = WithTrailingDot(@)]
             /\ Goto("value_from")
  /\ UNCHANGED <<input, calls, ecs, zones, zones_truncated, hosted_zone, records, truncated, batches, polls, status, change, quoted>>

\* main.rs:136-146: the values taken from the first network of the first container
EcsValue(a, network) ==
  LET NonEmpty(address) == address # <<>>
  IN IF a.record_type = Some("A") /\ IsSome(network.ipv4_addresses)
     THEN SelectSeq(Unwrap(network.ipv4_addresses), NonEmpty)
     ELSE IF a.record_type = Some("AAAA") /\ IsSome(network.ipv6_addresses)
     THEN Unwrap(network.ipv6_addresses)
     ELSE a.value

\* main.rs:120-147 with utils::get_ecs_task_metadata
ValueFromEcs ==
  /\ pc = "value_from"
  /\ IF IsSome(args.value_from) /\ Unwrap(args.value_from) \in {"EcsMetadata", "Auto"}
     THEN \/ \* neither ECS_CONTAINER_METADATA_URI_V4 nor ECS_CONTAINER_METADATA_URI is set
             /\ Goto("value_from_ec2")
             /\ UNCHANGED <<args, calls, ecs>>
          \/ \* the request fails, answers a non-200 status, or is no task document
             /\ Call("get_ecs_task_metadata")
             /\ Panic("get_ecs_task_metadata")
             /\ UNCHANGED <<args, ecs>>
          \/ \E doc \in EcsDocuments :
               /\ Call("get_ecs_task_metadata")
               /\ ecs' = Some(doc)
               /\ IF doc.containers = <<>> \/ Head(doc.containers).networks = <<>>
                  THEN Panic("called Option::unwrap() on a None value") /\ args' = args
                  ELSE /\ args' = [args EXCEPT
                                     !.value = EcsValue(args, Head(Head(doc.containers).networks))]
                       /\ Goto("value_from_ec2")
     ELSE Goto("value_from_ec2") /\ UNCHANGED <<args, calls, ecs>>
  /\ UNCHANGED <<input, zones, zones_truncated, hosted_zone, records, truncated, batches, polls, status, change, quoted>>

\* main.rs:154-159: the metadata path, "" when the match panics
ImdsPath(record_type, ip_address_type) ==
  IF record_type = Some("A") \/ record_type = None
  THEN (IF ip_address_type = "Public" THEN "public-ipv4" ELSE "local-ipv4")
  ELSE IF record_type = Some("AAAA") THEN "ipv6"
  ELSE ""

\* what the instance metadata service may hold at a path
ImdsValues(path) == IF path = "ipv6" THEN {V6} ELSE {V4}

\* the instance metadata probed under auto whatever the task metadata gave
ValueFromEc2Always ==
  /\ pc = "value_from_ec2"
  /\ ecs' = None
  /\ IF /\ IsSome(args.value_from)
        /\ Unwrap(args.value_from) \in {"Ec2Metadata", "Auto"}
     THEN LET path == ImdsPath(args.record_type, args.ip_address_type)
          IN IF path = ""
             THEN /\ Panic("--value-from is only usable with --record-type A or AAAA")
                  /\ UNCHANGED <<args, calls>>
             ELSE \E got \in {None} \cup {Some(v) : v \in ImdsValues(path)} :
                    LET value == IF IsSome(got) THEN Append(args.value, Unwrap(got))
                                 ELSE args.value
                    IN /\ Call("imds_get")
                       /\ args' = [args EXCEPT !.value = value]
                       /\ IF Unwrap(args.value_from) = "Auto" /\ value = <<>>
                          THEN Panic("unable to auto-detect an IP address to use")
                          ELSE Goto("value_from_url")
     ELSE Goto("value_from_url") /\ UNCHANGED <<args, calls>>
  /\ UNCHANGED <<input, zones, zones_truncated, hosted_zone, records, truncated, batches, polls, status, change, quoted>>

\* main.rs:148-171; the task metadata goes out of scope at line 147
ValueFromEc2 ==
  /\ pc = "value_from_ec2"
  /\ ecs' = None
  /\ IF /\ IsSome(args.value_from)
        /\ \/ Unwrap(args.value_from) = "Ec2Metadata"
           \/ Unwrap(args.value_from) = "Auto" /\ args.value = <<>>
     THEN LET path == ImdsPath(args.record_type, args.ip_address_type)
          IN IF path = ""
             THEN /\ Panic("--value-from is only usable with --record-type A or AAAA")
                  /\ UNCHANGED <<args, calls>>
             ELSE \E got \in {None} \cup {Some(v) : v \in ImdsValues(path)} :
                    LET value == IF IsSome(got) THEN Append(args.value, Unwrap(got))
                                 ELSE args.value
                    IN /\ Call("imds_get")
                       /\ args' = [args EXCEPT !.value = value]
                       /\ IF Unwrap(args.value_from) = "Auto" /\ value = <<>>
                          THEN Panic("unable to auto-detect an IP address to use")
                          ELSE Goto("value_from_url")
     ELSE /\ IF /\ IsSome(args.value_from)
                /\ Unwrap(args.value_from) = "Auto" /\ args.value = <<>>
             THEN Panic("unable to auto-detect an IP address to use")
             ELSE Goto("value_from_url")
          /\ UNCHANGED <<args, calls>>
  /\ UNCHANGED <<input, zones, zones_truncated, hosted_zone, records, truncated, batches, polls, status, change, quoted>>

\* main.rs:172-190
ValueFromUrl ==
  /\ pc = "value_from_url"
  /\ IF args.value_from = None /\ IsSome(args.value_from_url)
     THEN \/ \* the request fails or answers a non-200 status
             /\ Call("reqwest_get")
             /\ Panic("reqwest_get")
             /\ args' = args
          \/ \E body \in UrlBodies :
               /\ Call("reqwest_get")
               /\ args' = [args EXCEPT !.value = <<Trim(body)>>]
               /\ Goto("detect")
     ELSE /\ IF args.value = <<>> THEN Panic("somehow value is []") ELSE Goto("detect")
          /\ UNCHANGED <<args, calls>>
  /\ UNCHANGED <<input, ecs, zones, zones_truncated, hosted_zone, records, truncated, batches, polls, status, change, quoted>>

\* the detection step without the check of the detected type against --clear
DetectTypeUnchecked ==
  /\ pc = "detect"
  /\ IF args.record_type = None
     THEN args' = [args EXCEPT !.record_type = Some(detect_record_type(args.value))]
     ELSE args' = args
  /\ Goto("quote")
  /\ UNCHANGED <<input, calls, ecs, zones, zones_truncated, hosted_zone, records, truncated, batches, polls, status, change, quoted>>

\* main.rs:192-197
DetectType ==
  /\ pc = "detect"
  /\ IF args.record_type = None
     THEN LET detected == Some(detect_record_type(args.value))
          IN /\ args' = [args EXCEPT !.record_type = detected]
             /\ IF detected = Some("TXT") /\ args.clear
                THEN Panic("--clear only works with A, AAAA, or CNAME")
                ELSE Goto("quote")
     ELSE Goto("quote") /\ args' = args
  /\ UNCHANGED <<input, calls, ecs, zones, zones_truncated, hosted_zone, records, truncated, batches, polls, status, change, quoted>>

\* main.rs:199-212
QuoteTxt ==
  /\ pc = "quote"
  /\ IF args.record_type = Some("TXT")
     THEN args' = [args EXCEPT !.value = [i \in 1..Len(@) |-> QuoteValue(@[i])]]
     ELSE args' = args
  /\ Goto("zone")
  /\ UNCHANGED <<input, calls, ecs, zones, zones_truncated, hosted_zone, records, truncated, batches, polls, status, change, quoted>>

\* main.rs:233-286: the zone chosen from the listing, or None
SelectZone(zs, a) ==
  IF IsSome(a.hosted_zone_name)
  THEN ZoneByName(zs, WithTrailingDot(Unwrap(a.hosted_zone_name)), a.hosted_zone_type)
  ELSE Climb(zs, a.record_name, ClimbStartType(a.hosted_zone_type), a.hosted_zone_type)

\* the zone lookup going on with the first page of a truncated listing
ResolveZoneFirstPage ==
  /\ pc = "zone"
  /\ IF args.hosted_zone_id = None
     THEN \/ /\ Call("list_hosted_zones")
             /\ Panic("could not list hosted zones")
             /\ UNCHANGED <<zones, zones_truncated, hosted_zone>>
          \/ \E zs \in ZoneListings, is_truncated \in BOOLEAN :
               /\ Call("list_hosted_zones")
               /\ zones' = zs
               /\ zones_truncated' = is_truncated
               /\ hosted_zone' = SelectZone(zs, args)
               /\ IF hosted_zone' = None
                  THEN Panic(IF IsSome(args.hosted_zone_name)
                             THEN "could not find a hosted zone with name"
                             ELSE "could not find the hosted zone for")
                  ELSE Goto("zone_found")
     ELSE Goto("records") /\ UNCHANGED <<calls, zones, zones_truncated, hosted_zone>>
  /\ UNCHANGED <<input, args, ecs, records, truncated, batches, polls, status, change, quoted>>

\* main.rs:223-287
ResolveZone ==
  /\ pc = "zone"
  /\ IF args.hosted_zone_id = None
     THEN \/ \* the request fails
             /\ Call("list_hosted_zones")
             /\ Panic("could not list hosted zones")
             /\ UNCHANGED <<zones, zones_truncated, hosted_zone>>
          \/ \E zs \in ZoneListings, is_truncated \in BOOLEAN :
               /\ Call("list_hosted_zones")
               /\ zones' = zs
               /\ zones_truncated' = is_truncated
               /\ IF is_truncated
                  THEN /\ Panic("you have a lot of hosted zones and this program does not paginate yet")
                       /\ hosted_zone' = hosted_zone
                  ELSE /\ hosted_zone' = SelectZone(zs, args)
                       /\ IF hosted_zone' = None
                          THEN Panic(IF IsSome(args.hosted_zone_name)
                                     THEN "could not find a hosted zone with name"
                                     ELSE "could not find the hosted zone for")
                          ELSE Goto("zone_found")
     ELSE Goto("records") /\ UNCHANGED <<calls, zones, zones_truncated, hosted_zone>>
  /\ UNCHANGED <<input, args, ecs, records, truncated, batches, polls, status, change, quoted>>

\* main.rs:288-294; the zone listing goes out of scope at line 294
UseZone ==
  /\ pc = "zone_found"
  /\ IF IsSome(hosted_zone)
     THEN /\ args' = [args EXCEPT !.hosted_zone_id = Some(Unwrap(hosted_zone).id)]
          /\ Goto("records")
     ELSE Panic("could not find the hosted zone") /\ args' = args
  /\ zones' = <<>>
  /\ hosted_zone' = None
  /\ UNCHANGED <<input, calls, ecs, zones_truncated, records, truncated, batches, polls, status, change, quoted>>

\* the TTL copied from the listed record even over a --ttl
ListRecordsCopyingTtl ==
  /\ pc = "records"
  /\ IF args.ttl = None \/ args.clear
     THEN \/ /\ Call("list_resource_record_sets")
             /\ Panic("could not list record sets")
             /\ UNCHANGED <<args, records, truncated>>
          \/ \E rs \in RecordListings, is_truncated \in BOOLEAN :
               LET found == ExistingRecord(rs, args.record_name, args.record_type)
               IN /\ Call("list_resource_record_sets")
                  /\ records' = rs
                  /\ truncated' = is_truncated
                  /\ IF found = None
                     THEN /\ Goto("clear")
                          /\ args' = [args EXCEPT !.ttl = IF @ = None THEN Some(DefaultTtl) ELSE @]
                     ELSE IF Unwrap(found).ttl = None
                     THEN Panic("called Option::unwrap() on a None value") /\ args' = args
                     ELSE Goto("clear") /\ args' = [args EXCEPT !.ttl = Unwrap(found).ttl]
     ELSE Goto("clear") /\ UNCHANGED <<args, calls, records, truncated>>
  /\ UNCHANGED <<input, ecs, zones, zones_truncated, hosted_zone, batches, polls, status, change, quoted>>

\* main.rs:296-321
ListRecords ==
  /\ pc = "records"
  /\ IF args.ttl = None \/ args.clear
     THEN \/ \* the request fails
             /\ Call("list_resource_record_sets")
             /\ Panic("could not list record sets")
             /\ UNCHANGED <<args, records, truncated>>
          \/ \E rs \in RecordListings, is_truncated \in BOOLEAN :
               LET found == ExistingRecord(rs, args.record_name, args.record_type)
               IN /\ Call("list_resource_record_sets")
                  /\ records' = rs
                  /\ truncated' = is_truncated
                  /\ IF args.ttl # None
                     THEN Goto("clear") /\ args' = args
                     ELSE IF found = None
                     THEN Goto("clear") /\ args' = [args EXCEPT !.ttl = Some(DefaultTtl)]
                     ELSE IF Unwrap(found).ttl = None
                     THEN Panic("called Option::unwrap() on a None value") /\ args' = args
                     ELSE Goto("clear") /\ args' = [args EXCEPT !.ttl = Unwrap(found).ttl]
     ELSE Goto("clear") /\ UNCHANGED <<args, calls, records, truncated>>
  /\ UNCHANGED <<input, ecs, zones, zones_truncated, hosted_zone, batches, polls, status, change, quoted>>

\* a ChangeBatch as sent, and whether Route 53 accepted it
Submission(a, changes, comment, accepted) ==
  [hosted_zone_id |-> a.hosted_zone_id, changes |-> changes, comment |-> comment,
   accepted |-> accepted]

\* the conflict clearer sending its batch even when it holds no Delete
ClearConflictsAlwaysSubmits ==
  /\ pc = "clear"
  /\ LET changes == DeleteChanges(records, args.record_name, args.record_type)
     IN IF args.clear
        THEN \E accepted \in BOOLEAN :
               /\ Call("change_resource_record_sets")
               /\ batches' = Append(batches, Submission(args, changes, None, accepted))
               /\ IF accepted THEN Goto("upsert")
                  ELSE Panic("could not delete DNS records")
        ELSE Goto("upsert") /\ UNCHANGED <<calls, batches>>
  /\ UNCHANGED <<input, args, ecs, zones, zones_truncated, hosted_zone, records, truncated, polls, status, change, quoted>>

\* the conflict clearer going on to the Upsert after a rejected delete batch
ClearConflictsIgnoringRejection ==
  /\ pc = "clear"
  /\ LET changes == DeleteChanges(records, args.record_name, args.record_type)
     IN IF args.clear /\ changes # <<>>
        THEN \E accepted \in BOOLEAN :
               /\ Call("change_resource_record_sets")
               /\ batches' = Append(batches, Submission(args, changes, None, accepted))
               /\ Goto("upsert")
        ELSE Goto("upsert") /\ UNCHANGED <<calls, batches>>
  /\ UNCHANGED <<input, args, ecs, zones, zones_truncated, hosted_zone, records, truncated, polls, status, change, quoted>>

\* main.rs:323-361
ClearConflicts ==
  /\ pc = "clear"
  /\ LET changes == DeleteChanges(records, args.record_name, args.record_type)
     IN IF args.clear /\ changes # <<>>
        THEN \E accepted \in BOOLEAN :
               /\ Call("change_resource_record_sets")
               /\ batches' = Append(batches, Submission(args, changes, None, accepted))
               /\ IF accepted THEN Goto("upsert")
                  ELSE Panic("could not delete DNS records")
        ELSE Goto("upsert") /\ UNCHANGED <<calls, batches>>
  /\ UNCHANGED <<input, args, ecs, zones, zones_truncated, hosted_zone, records, truncated, polls, status, change, quoted>>

\* main.rs:364-407
SubmitUpsert ==
  /\ pc = "upsert"
  /\ \E accepted \in BOOLEAN :
       /\ Call("change_resource_record_sets")
       /\ batches' = Append(batches,
                            Submission(args, <<UpsertChange(args)>>, args.comment, accepted))
       /\ change' = IF accepted THEN "PENDING" ELSE change
       /\ IF ~accepted THEN Panic("could not update DNS")
          ELSE IF args.wait THEN Goto("poll")
          ELSE Goto("done")
  /\ UNCHANGED <<input, args, ecs, zones, zones_truncated, hosted_zone, records, truncated, polls, status, quoted>>

\* the wait loop leaving at the first answer, whatever the status
PollUntilAnswered ==
  /\ pc = "poll"
  /\ polls' = IF polls < MaxPolls THEN polls + 1 ELSE polls
  /\ \/ /\ Panic("could not poll change status")
        /\ status' = status
     \/ /\ status' = change
        /\ Goto("done")
  /\ UNCHANGED <<input, args, calls, ecs, zones, zones_truncated, hosted_zone, records, truncated, batches, change, quoted>>

\* main.rs:408-421: one turn of the wait loop; get_change answers with the
\* status the change has at that moment
Poll ==
  /\ pc = "poll"
  /\ polls' = IF polls < MaxPolls THEN polls + 1 ELSE polls
  /\ \/ \* the request fails
        /\ Panic("could not poll change status")
        /\ status' = status
     \/ LET change_status == change
        IN /\ status' = change_status
           /\ IF change_status = "INSYNC" THEN Goto("done") ELSE Goto("poll")
  /\ UNCHANGED <<input, args, calls, ecs, zones, zones_truncated, hosted_zone, records, truncated, batches, change, quoted>>

\* Route 53 finishes propagating the change to its name servers
Propagate ==
  /\ change = "PENDING"
  /\ change' = "INSYNC"
  /\ UNCHANGED <<input, args, pc, failure, calls, ecs, zones, zones_truncated, hosted_zone, records, truncated,
                 batches, polls, status, quoted>>

Next ==
  \/ Validate
  \/ ValueFromEcs
  \/ ValueFromEc2
  \/ ValueFromUrl
  \/ DetectType
  \/ QuoteTxt
  \/ ResolveZone
  \/ UseZone
  \/ ListRecords
  \/ ClearConflicts
  \/ SubmitUpsert
  \/ Poll
  \/ Propagate

Spec == Init /\ [][Next]_vars

\* main() runs on: a wait loop that is polling polls again
FairSpec == Spec /\ WF_vars(Poll)

----------------------------------------------------------------------------
(* The TXT quoting step on its own: every short string over a quote, a     *)
(* letter and a blank, quoted again and again                              *)

QuoteAlphabet == {Quote, "a", " "}

InitQuote ==
  /\ quoted \in {<<v>> : v \in SeqsUpTo(QuoteAlphabet, MaxLen)}
  /\ input = Default
  /\ args = input
  /\ pc = "quoting"
  /\ failure = ""
  /\ calls = <<>>
  /\ ecs = None
  /\ zones = <<>>
  /\ zones_truncated = FALSE
  /\ hosted_zone = None
  /\ records = <<>>
  /\ truncated = FALSE
  /\ batches = <<>>
  /\ polls = 0
  /\ status = ""
  /\ change = ""

\* the closure of main.rs:204-210 applied to the last image
ApplyQuote ==
  /\ pc = "quoting"
  /\ Len(quoted) < 3
  /\ quoted' = Append(quoted, QuoteValue(quoted[Len(quoted)]))
  /\ UNCHANGED <<input, args, pc, failure, calls, ecs, zones, zones_truncated, hosted_zone, records, truncated,
                 batches, polls, status, change>>

SpecQuote == InitQuote /\ [][ApplyQuote]_vars

----------------------------------------------------------------------------
(* Vocabulary of the properties *)

Range(q) == {q[i] : i \in 1..Len(q)}

\* every change sent so far, with the batch it was sent in
SentChanges ==
  UNION {{[batch |-> b, action |-> batches[b].changes[i].action,
           set |-> batches[b].changes[i].resource_record_set] :
            i \in 1..Len(batches[b].changes)} : b \in 1..Len(batches)}

DeletedSets == {c.set : c \in {d \in SentChanges : d.action = "DELETE"}}

UpsertedSets == {c.set : c \in {d \in SentChanges : d.action = "UPSERT"}}

\* the type was left to detect_record_type, and the run stands right after it
JustDetected == input.record_type = None /\ pc = "quote"

\* the delete loop of the conflict clearer has run
Cleared == args.clear /\ (pc = "upsert" \/ failure = "could not delete DNS records")

ListedAt(name, type) == {r \in Range(records) : r.name = name /\ r.type = type}

\* the zone is looked up by climbing from the record name, and the lookup has run
Climbed ==
  /\ input.hosted_zone_id = None /\ input.hosted_zone_name = None
  /\ pc = "zone_found" \/ failure = "could not find the hosted zone for"

IsPublic(z) == z.config = Some([private_zone |-> FALSE])

IsPrivate(z) == z.config = Some([private_zone |-> TRUE])

\* the suffixes of a name that start at a label
Suffixes(name) ==
  {SubSeq(name, i, Len(name)) : i \in {j \in 1..Len(name) : j = 1 \/ name[j - 1] = "."}}

ZonesNamed(name) == {i \in 1..Len(zones) : zones[i].name = name}

Min(S) == CHOOSE x \in S : \A y \in S : x <= y

----------------------------------------------------------------------------
(* Type Detector *)

\* C1: when the type is detected, values that are all valid IPv4 addresses
\* give A and values that are all valid IPv6 addresses give AAAA.
C1_DetectsAddressFamily ==
  JustDetected =>
    /\ (\A i \in 1..Len(args.value) : IsIpv4(args.value[i])) => args.record_type = Some("A")
    /\ (\A i \in 1..Len(args.value) : IsIpv6(args.value[i])) => args.record_type = Some("AAAA")

\* C2: when the type is detected, values holding a non-address, or holding
\* both an IPv4 and an IPv6 address, give TXT.
C2_OtherwiseTxt ==
  (/\ JustDetected
   /\ \/ \E i \in 1..Len(args.value) : ~IsIpv4(args.value[i]) /\ ~IsIpv6(args.value[i])
      \/ \E i, j \in 1..Len(args.value) : IsIpv4(args.value[i]) /\ IsIpv6(args.value[j]))
  => args.record_type = Some("TXT")

----------------------------------------------------------------------------
(* Conflict Clearer *)

\* an A record and a CNAME record are listed at the target name
BothListed ==
  ListedAt(args.record_name, "A") # {} /\ ListedAt(args.record_name, "CNAME") # {}

C4_DeletesOnlyAddressAndCname ==
  \A r \in DeletedSets :
    /\ r \in Range(records)
    /\ r.name = args.record_name
    /\ r.type \in {"A", "AAAA", "CNAME"}
    /\ args.record_type # Some("CNAME") => Some(r.type) # args.record_type

----------------------------------------------------------------------------
(* Zone Resolver *)

\* C5: under PreferPublic, with zones named example.com. only: when a public
\* and a private one are listed the public one is selected, and when only
\* private ones are listed a private one is selected.
C5_PreferPublicFallsBack ==
  (/\ Climbed /\ input.hosted_zone_type = "PreferPublic"
   /\ zones # <<>>
   /\ \A z \in Range(zones) : z.name = ExampleFqdn /\ (IsPublic(z) \/ IsPrivate(z))) =>
    /\ IsSome(hosted_zone)
    /\ Unwrap(hosted_zone) \in Range(zones)
    /\ (\E z \in Range(zones) : IsPublic(z)) => IsPublic(Unwrap(hosted_zone))

\* the zone C6 describes: at the longest suffix naming any zone, the first
\* public one of that name if there is one, else the first listed of that name
C6_Expected ==
  LET named == {x \in Suffixes(args.record_name) : ZonesNamed(x) # {}}
      longest == CHOOSE x \in named : \A y \in named : Len(y) <= Len(x)
      public == {i \in ZonesNamed(longest) : IsPublic(zones[i])}
  IN IF named = {} THEN None
     ELSE IF public # {} THEN Some(zones[Min(public)])
     ELSE Some(zones[Min(ZonesNamed(longest))])

\* C6: under PreferPublic the climb stops at the longest suffix of the record
\* name that names any zone and returns the public zone of that name, else the
\* first listed one; it fails only when no suffix names a zone.
C6_StopsAtFirstNamedSuffix ==
  (/\ Climbed /\ input.hosted_zone_type = "PreferPublic"
   /\ \A z \in Range(zones) : IsPublic(z) \/ IsPrivate(z)) =>
    hosted_zone = C6_Expected

----------------------------------------------------------------------------
(* Whole runs *)

\* --record-name app.example.com --value 203.0.113.5
C7_Scenario == input = [Default EXCEPT !.value = <<V4>>]

\* the zone listing holds a zone, public or private, named by a suffix of the
\* record name
C7_ZoneCoversName ==
  \E z \in Range(zones) :
    z.name \in Suffixes(args.record_name) /\ (IsPublic(z) \/ IsPrivate(z))

\* C7: the run for app.example.com with the one value 203.0.113.5 and nothing
\* else given, over a record listing that is empty, sends no Delete and at
\* most one batch, finds a zone whenever one covering the name is listed,
\* resolves type A and TTL 300, and when it ends has sent exactly one batch:
\* one Upsert of app.example.com. A 300 with that one value.
C7_PlainRun ==
  (C7_Scenario /\ records = <<>>) =>
    /\ DeletedSets = {}
    /\ Len(batches) <= 1
    /\ C7_ZoneCoversName => failure # "could not find the hosted zone for"
    /\ pc \in {"clear", "upsert", "done"} =>
         args.record_type = Some("A") /\ args.ttl = Some(300)
    /\ pc = "done" =>
         /\ calls = <<"list_hosted_zones", "list_resource_record_sets",
                      "change_resource_record_sets">>
         /\ batches =
              <<[hosted_zone_id |-> args.hosted_zone_id, comment |-> None, accepted |-> TRUE,
                 changes |->
                   <<[action |-> "UPSERT",
                      resource_record_set |->
                        [name |-> AppFqdn, type |-> "A", ttl |-> Some(300),
                         resource_records |-> <<V4>>]]>>]>>

\* how many of --value, --value-from and --value-from-url were given
SourcesGiven ==
  (IF input.value # <<>> THEN 1 ELSE 0) + (IF input.value_from # None THEN 1 ELSE 0)
    + (IF input.value_from_url # None THEN 1 ELSE 0)

Misconfigured ==
  \/ SourcesGiven # 1
  \/ input.hosted_zone_id # None /\ input.hosted_zone_name # None
  \/ input.record_type = Some("TXT") /\ input.clear

\* C8: a run given several value sources, or none, or both a zone id and a
\* zone name, or type TXT with --clear, never gets past the argument checks
\* and invokes no collaborator.
C8_ConfigErrorsBeforeAnyCall ==
  Misconfigured =>
    /\ pc \in {"start", "failed"}
    /\ calls = <<>> /\ batches = <<>> /\ polls = 0
    /\ records = <<>> /\ zones = <<>> /\ ecs = None

C8_Witness ==
  /\ pc = "failed" /\ calls = <<>>
  /\ input.record_type = Some("TXT") /\ input.clear
  /\ SourcesGiven = 1 /\ input.hosted_zone_name = None

----------------------------------------------------------------------------
(* TTL Resolver *)

\* places in the listing of the records with the target name and type
C9_Matching ==
  {i \in 1..Len(records) :
     records[i].name = args.record_name /\ Some(records[i].type) = args.record_type}

\* C9: with no --ttl, an Upsert that is sent carries the TTL of the first
\* listed record with the target name and type, and 300 when none is listed.
C9_TtlCopiedOrDefault ==
  input.ttl = None =>
    \A u \in UpsertedSets :
      u.ttl = IF C9_Matching = {} THEN Some(300) ELSE records[Min(C9_Matching)].ttl

C9_Witness ==
  /\ input.ttl = None /\ pc = "done"
  /\ C9_Matching # {}
  /\ \E r \in Range(records) : r.name = args.record_name /\ Some(r.type) # args.record_type
  /\ \E u \in UpsertedSets : u.ttl = Some(600)

----------------------------------------------------------------------------
(* TXT quoting *)

\* C10: the quoting step leaves a value that starts and ends with a double
\* quote as it is, and a second application changes nothing after the first.
C10_QuotingIdempotent ==
  /\ (Len(quoted) >= 2 /\ Len(quoted[1]) > 0
      /\ quoted[1][1] = Quote /\ quoted[1][Len(quoted[1])] = Quote) => quoted[2] = quoted[1]
  /\ Len(quoted) >= 3 => quoted[3] = quoted[2]
  /\ \A k \in 1..Len(quoted) : Len(quoted[k]) <= Len(quoted[1]) + 2

C10_Witness ==
  Len(quoted) = 3 /\ quoted[2] = <<Quote>> \o quoted[1] \o <<Quote>> /\ quoted[3] = quoted[2]

----------------------------------------------------------------------------
(* Propagation Waiter *)

\* the last batch sent is the upsert batch, and Route 53 accepted it
UpsertAccepted ==
  /\ batches # <<>>
  /\ batches[Len(batches)].accepted
  /\ batches[Len(batches)].changes = <<UpsertChange(args)>>

\* what C11 says of every state of a run
C11_Waits ==
  /\ pc = "poll" => input.wait /\ UpsertAccepted
  /\ status = "PENDING" => pc = "poll" \/ failure = "could not poll change status"
  /\ (input.wait /\ pc = "done") => polls >= 1 /\ status = "INSYNC"
  /\ ~input.wait => polls = 0 /\ status = "" /\ pc # "poll"

\* C11: with --wait the run polls only after the upsert batch was accepted,
\* polls again after an answer of PENDING, and ends well only after an answer
\* of INSYNC; once the change is INSYNC the run ends, well unless a poll
\* request fails; without --wait no poll is made.
C11_WaitsForInsync ==
  /\ []C11_Waits
  /\ (input.wait /\ change = "INSYNC") ~>
       (\/ pc = "done" /\ status = "INSYNC"
        \/ pc = "failed")

C11_Witness ==
  input.wait /\ pc = "done" /\ polls >= 2 /\ status = "INSYNC" /\ change = "INSYNC"

----------------------------------------------------------------------------
(* Zone listing *)

\* C12: with no --hosted-zone-id, a zone listing that says it is truncated
\* ends the run in the pagination panic with no zone selected, no zone id
\* set, no record listing and no batch sent; with --hosted-zone-id the zone
\* listing is never requested.
C12_TruncatedZoneListingIsFatal ==
  /\ zones_truncated =>
       /\ input.hosted_zone_id = None
       /\ pc = "failed"
       /\ failure = "you have a lot of hosted zones and this program does not paginate yet"
       /\ hosted_zone = None /\ args.hosted_zone_id = None
       /\ calls[Len(calls)] = "list_hosted_zones"
       /\ records = <<>> /\ batches = <<>> /\ polls = 0
  /\ input.hosted_zone_id # None =>
       /\ \A i \in 1..Len(calls) : calls[i] # "list_hosted_zones"
       /\ zones = <<>> /\ ~zones_truncated

\* a truncated listing whose first page holds the zone the lookup would select
C12_Witness ==
  /\ zones_truncated /\ pc = "failed"
  /\ IsSome(SelectZone(zones, args))

----------------------------------------------------------------------------
(* Change batches *)

IsDeleteBatch(b) ==
  b.changes # <<>> /\ \A i \in 1..Len(b.changes) : b.changes[i].action = "DELETE"

IsUpsertBatch(b) == Len(b.changes) = 1 /\ b.changes[1].action = "UPSERT"

\* C13: every batch sent holds either Deletes only, at least one, or the one
\* Upsert; at most one of each kind is sent; a delete batch comes first and
\* was accepted before the upsert batch is sent; a run whose listing holds
\* no conflicting record sends no delete batch; without --clear no Delete is
\* sent.
C13_DeleteBatchThenUpsertBatch ==
  /\ \A i \in 1..Len(batches) : IsDeleteBatch(batches[i]) \/ IsUpsertBatch(batches[i])
  /\ Len(batches) <= 2
  /\ Len(batches) = 2 =>
       /\ IsDeleteBatch(batches[1]) /\ batches[1].accepted
       /\ IsUpsertBatch(batches[2])
  /\ (batches # <<>> /\ IsDeleteBatch(batches[1])) =>
       \E r \in Range(records) : IsConflict(r, args.record_name, args.record_type)
  /\ ~input.clear => DeletedSets = {}
  /\ Cardinality({i \in 1..Len(calls) : calls[i] = "change_resource_record_sets"}) = Len(batches)

C13_Witness ==
  /\ pc = "done" /\ Len(batches) = 2
  /\ IsDeleteBatch(batches[1]) /\ IsUpsertBatch(batches[2])

----------------------------------------------------------------------------
(* TXT with --clear *)

\* no type was given, --clear was, and the values were detected as TXT
DetectedTxtWithClear ==
  input.record_type = None /\ input.clear /\ args.record_type = Some("TXT")

\* the collaborators the value resolver invokes
ValueCalls == {"get_ecs_task_metadata", "imds_get", "reqwest_get"}

\* C14 as stated: a run with no type and --clear whose values are detected
\* as TXT fails having invoked no collaborator at all.
C14_AsStated ==
  DetectedTxtWithClear =>
    /\ pc = "failed" /\ failure = "--clear only works with A, AAAA, or CNAME"
    /\ calls = <<>>

\* C14 as amended: a run with no type and --clear whose values are detected
\* as TXT fails right after the detection: the value resolver may have
\* fetched the URL or probed the metadata services, and nothing else was
\* invoked; with --value given nothing was invoked at all.
C14_DetectedTxtWithClearFails ==
  DetectedTxtWithClear =>
    /\ pc = "failed" /\ failure = "--clear only works with A, AAAA, or CNAME"
    /\ \A i \in 1..Len(calls) : calls[i] \in ValueCalls
    /\ input.value # <<>> => calls = <<>>
    /\ zones = <<>> /\ ~zones_truncated /\ records = <<>> /\ batches = <<>> /\ polls = 0

C14_Witness ==
  /\ DetectedTxtWithClear /\ pc = "failed"
  /\ input.value_from_url # None
  /\ calls = <<"reqwest_get">>

----------------------------------------------------------------------------
(* Rejected change batches *)

\* the record sets Route 53 has removed: those of the accepted delete batches
RemovedSets ==
  {c.set : c \in {d \in SentChanges : d.action = "DELETE" /\ batches[d.batch].accepted}}

\* the record sets Route 53 has written: those of the accepted upsert batches
WrittenSets ==
  {c.set : c \in {d \in SentChanges : d.action = "UPSERT" /\ batches[d.batch].accepted}}

\* C15: a rejected batch is the last one sent and ends the run in failure;
\* after a rejected delete batch no upsert batch is sent; after an accepted
\* delete batch and a rejected upsert batch the run has failed with the
\* conflicting records removed and nothing written; and no batch sent ever
\* writes a record of the name and type of a deleted one.
C15_RejectionIsFatal ==
  /\ \A i \in 1..Len(batches) :
       ~batches[i].accepted =>
         /\ i = Len(batches) /\ pc = "failed"
         /\ failure = IF IsDeleteBatch(batches[i]) THEN "could not delete DNS records"
                      ELSE "could not update DNS"
         /\ IsDeleteBatch(batches[i]) => UpsertedSets = {}
  /\ (Len(batches) = 2 /\ ~batches[2].accepted) =>
       /\ RemovedSets = {r \in Range(records) : IsConflict(r, args.record_name, args.record_type)}
       /\ RemovedSets # {}
       /\ WrittenSets = {} /\ change = "" /\ polls = 0
  /\ \A u \in UpsertedSets, d \in DeletedSets : ~(u.name = d.name /\ u.type = d.type)

C15_Witness ==
  /\ Len(batches) = 2 /\ batches[1].accepted /\ ~batches[2].accepted
  /\ pc = "failed" /\ failure = "could not update DNS"

----------------------------------------------------------------------------
(* Zone Resolver under a strict preference *)

\* the listed zones of the visibility --hosted-zone-type asks for that are
\* named by a suffix of the record name
C16_Candidates ==
  {z \in Range(zones) :
     /\ z.name \in Suffixes(args.record_name)
     /\ IF input.hosted_zone_type = "Private" THEN IsPrivate(z) ELSE IsPublic(z)}

\* C16: under Public or Private the climb fails when no suffix of the record
\* name names a zone of that visibility, and else selects a zone of that
\* visibility named by the longest such suffix, passing over the suffixes
\* that name zones of the other visibility only.
C16_StrictClimb ==
  (Climbed /\ input.hosted_zone_type \in {"Public", "Private"}) =>
    IF C16_Candidates = {}
    THEN pc = "failed" /\ hosted_zone = None
    ELSE /\ pc = "zone_found" /\ IsSome(hosted_zone)
         /\ Unwrap(hosted_zone) \in C16_Candidates
         /\ \A z \in C16_Candidates : Len(z.name) <= Len(Unwrap(hosted_zone).name)

\* a private zone app.example.com. is passed over for the public example.com.
C16_Witness ==
  /\ Climbed /\ input.hosted_zone_type = "Public" /\ pc = "zone_found"
  /\ \E z \in Range(zones) : z.name = AppFqdn /\ IsPrivate(z)
  /\ Unwrap(hosted_zone).name = ExampleFqdn /\ IsPublic(Unwrap(hosted_zone))

----------------------------------------------------------------------------
(* Zone Resolver anchored by --hosted-zone-name *)

\* the zone is looked up by --hosted-zone-name, and the lookup has run
Anchored ==
  /\ input.hosted_zone_name # None
  /\ pc = "zone_found" \/ failure = "could not find a hosted zone with name"

\* places in the listing of the zones the anchored lookup may select: those
\* with the given name, of the visibility asked for, or of any under
\* PreferPublic when none with that name is public
C17_Candidates ==
  LET named == ZonesNamed(WithTrailingDot(Unwrap(input.hosted_zone_name)))
      public == {i \in named : IsPublic(zones[i])}
      private == {i \in named : IsPrivate(zones[i])}
  IN IF input.hosted_zone_type = "Private" THEN private
     ELSE IF input.hosted_zone_type = "Public" \/ public # {} THEN public
     ELSE named

\* C17: the lookup by --hosted-zone-name selects a zone of exactly that name,
\* with a dot at its end: the first of the visibility asked for, and under
\* PreferPublic the first public one or else the first one of that name, so a
\* sole private one; it fails when there is none, with no record listing and
\* no batch sent, whatever zones the parent names have.
C17_AnchoredByName ==
  Anchored =>
    IF C17_Candidates = {}
    THEN /\ pc = "failed" /\ hosted_zone = None
         /\ records = <<>> /\ batches = <<>>
         /\ calls[Len(calls)] = "list_hosted_zones"
    ELSE /\ pc = "zone_found"
         /\ hosted_zone = Some(zones[Min(C17_Candidates)])

\* under PreferPublic the sole zone of the given name, a private one, is selected
C17_Witness ==
  /\ Anchored /\ input.hosted_zone_type = "PreferPublic" /\ pc = "zone_found"
  /\ input.hosted_zone_name = Some(ExampleName)
  /\ Cardinality(ZonesNamed(ExampleFqdn)) = 1
  /\ IsPrivate(Unwrap(hosted_zone)) /\ Unwrap(hosted_zone).name = ExampleFqdn

----------------------------------------------------------------------------
(* Values from the container-task metadata *)

\* C18: with --value-from ecs-metadata or auto, for type A and for type AAAA,
\* the values taken from the task metadata hold no empty string, and no
\* Upsert sent holds an empty-string value.
C18_NoEmptyAddress ==
  (input.value_from \in {Some("EcsMetadata"), Some("Auto")}
   /\ input.record_type \in {Some("A"), Some("AAAA")}) =>
    /\ pc = "value_from_ec2" => \A i \in 1..Len(args.value) : args.value[i] # <<>>
    /\ \A u \in UpsertedSets :
         \A i \in 1..Len(u.resource_records) : u.resource_records[i] # <<>>

----------------------------------------------------------------------------
(* Value Resolver in auto mode *)

\* the run was started with --value-from auto
Auto == input.value_from = Some("Auto")

\* what C19 says of every state of a run
C19_Resolved ==
  /\ Auto =>
       /\ \A i, j \in 1..Len(calls) :
            (calls[i] = "imds_get" /\ calls[j] = "get_ecs_task_metadata") => j < i
       /\ pc \in {"value_from_url", "detect", "quote", "zone", "zone_found", "records", "clear",
                   "upsert", "poll", "done"} => args.value # <<>>
       /\ failure = "unable to auto-detect an IP address to use" =>
            /\ args.value = <<>>
            /\ \A i \in 1..Len(calls) : calls[i] \in ValueCalls
            /\ zones = <<>> /\ ~zones_truncated /\ records = <<>> /\ batches = <<>>
  /\ batches # <<>> => args.value # <<>>
  /\ \A u \in UpsertedSets : u.resource_records # <<>>

\* what C19 says of the step that follows the task metadata probe: with a
\* value at hand it invokes nothing and keeps the values; the instance
\* metadata is asked only with no value at hand, and the step fails when it
\* leaves none
C19_ProbeStep ==
  (Auto /\ pc = "value_from_ec2") =>
    /\ args.value # <<>> => calls' = calls /\ args' = args /\ pc' = "value_from_url"
    /\ calls' # calls => calls' = Append(calls, "imds_get") /\ args.value = <<>>
    /\ args'.value = <<>> => pc' = "failed"

\* C19: under --value-from auto the task metadata is probed before the
\* instance metadata; the instance metadata is asked only when the task
\* metadata gave no value, and the values the task metadata gave are kept;
\* with no value from either the run fails before any zone listing and any
\* batch; and every batch is sent with at least one value resolved.
C19_AutoProbesInOrder ==
  []C19_Resolved /\ [][C19_ProbeStep]_vars

\* a run on the two addresses of the task metadata, the instance metadata unasked
C19_Witness ==
  /\ Auto /\ pc = "done" /\ Len(args.value) = 2
  /\ calls[1] = "get_ecs_task_metadata"
  /\ \A i \in 1..Len(calls) : calls[i] # "imds_get"

----------------------------------------------------------------------------
(* Explicit TTL and the record listing *)

\* places in `calls` of the record set listings
RecordListingCalls == {i \in 1..Len(calls) : calls[i] = "list_resource_record_sets"}

\* what C20 says of every state of a run
C20_Listed ==
  /\ input.ttl # None =>
       /\ args.ttl = input.ttl
       /\ \A u \in UpsertedSets : u.ttl = input.ttl
  /\ Cardinality(RecordListingCalls) <= 1
  /\ RecordListingCalls # {} => input.ttl = None \/ input.clear
  /\ pc \in {"clear", "upsert", "poll", "done"} =>
       (RecordListingCalls # {} <=> (input.ttl = None \/ input.clear))
  /\ RecordListingCalls = {} => records = <<>> /\ ~truncated

\* what C20 says of the step that lists the record sets: a truncated listing
\* sends the run on to the conflict clearer, but for the listed record whose
\* TTL is to be copied and has none
C20_TruncatedStep ==
  (pc = "records" /\ truncated') =>
    \/ pc' = "clear"
    \/ /\ failure' = "called Option::unwrap() on a None value"
       /\ input.ttl = None
       /\ \E r \in Range(records') :
            r.name = args.record_name /\ Some(r.type) = args.record_type /\ r.ttl = None

\* C20: with --ttl the Upsert carries that TTL whatever the listed records
\* hold; the record sets are listed at most once, and a run that gets past the
\* listing step has listed them exactly when no --ttl or --clear was given;
\* a truncated listing does not end the run.
C20_ExplicitTtlAndListing ==
  []C20_Listed /\ [][C20_TruncatedStep]_vars

\* a run with --ttl 60 and --clear over a truncated listing that holds the
\* target record with TTL 600
C20_Witness ==
  /\ input.ttl = Some(60) /\ input.clear /\ pc = "done" /\ truncated
  /\ \E r \in Range(records) :
       r.name = args.record_name /\ Some(r.type) = args.record_type /\ r.ttl = Some(600)
  /\ \E u \in UpsertedSets : u.ttl = Some(60)

=============================================================================
